---- MODULE Spec2Model ----
(***************************************************************************)
(* Change-detection engine of 3xui-helper-bot: the panel store read by     *)
(* DatabaseManager (database.py), the store mutations of testdbchange.py   *)
(* and the poll loop monitor_database_changes (bot.py).                    *)
(*                                                                         *)
(* A Python dict is a sequence of [key, val] pairs in insertion order; a   *)
(* Python list is a sequence.  A tgId of 0 stands for an absent tgId (the  *)
(* code tests `if tg_id:`).  A rendered config is a tuple of the fields    *)
(* the f-string of generate_vless_config concatenates.                      *)
(***************************************************************************)
EXTENDS Integers, Sequences, FiniteSets, TLC

\* ------------------------------------------------------------------ bounds
\* how many times the store is mutated (testdbchange.py) in one behaviour
MaxChanges == 2
\* how many store reads fail in one behaviour
MaxFails == 1
\* how many updates of one behaviour have a store read or a transport call that fails
MaxFaulty == 1
\* how many updates arrive in one behaviour that follows them from their arrival on
MaxUpdates == 4

\* ------------------------------------------------------------ value spaces
Emails == {"e1", "e2"}
TgIds == {0, 1, 2}
ServerNames == {"a.com", "b.com"}
\* expiryTime in ms: 0 (unlimited), or a time whose year datetime cannot represent
\* (create_test_client computes it from an unchecked number of days)
ExpiryTimes == {"0", "year>9999"}

ADMIN_IDS == <<1, 9>>

\* the inbound row's columns that no modelled operation changes
Listen == "0.0.0.0"
Port == "443"
Remark == "vpn"

VARIABLES
    clients,            \* store: inbounds.settings -> clients (list of dicts)
    serverName,         \* store: stream_settings.realitySettings.serverNames[0]
    changes,            \* store mutations so far
    fails,              \* failed store reads so far
    monitoring_active,  \* bot.py global
    last_configs,       \* bot.py global: retained config baseline
    last_clients,       \* bot.py global: retained account baseline
    pc,                 \* position of the monitor task
    changed_configs,    \* local of monitor_database_changes
    cfg_todo,           \* (tg_id, config_data) pairs the nested for loop has yet to send
    new_clients,        \* local of monitor_database_changes
    new_todo,           \* new clients the for loop has yet to handle
    admin_todo,         \* administrators the inner for loop has yet to send to
    stopped,            \* post_stop has run
    tasks,              \* how many monitor tasks asyncio.create_task has created
    cur_configs,        \* history: current_configs built inside check_config_changes
    cur_clients,        \* history: the account list read inside check_new_clients
    iter_configs,       \* history: last_configs at the top of the iteration
    iter_clients,       \* history: last_clients at the top of the iteration
    read_failed,        \* history: a store read failed in this iteration
    raised,             \* history: an exception reached the except clause in this iteration
    iter_changes,       \* history: changes at the top of the iteration
    tried_new,          \* history: the (account id, administrator) sends of this iteration
    sent_cfg,           \* history: ConfigChanged sends attempted since the store last changed
    sent_new,           \* history: NewAccount sends attempted since the store last changed
    track_failed,       \* the behaviour keeps the history of the failed sends
    undelivered,        \* history: the first of these sends that failed
    conv_on,            \* the behaviour is one of the update handlers, not of the monitor task
    user,               \* the Telegram user (and private chat) the updates come from
    mail_state,         \* state of mail_conv_handler for that user
    report_state,       \* state of report_conv_handler for that user
    user_data,          \* context.user_data of that user
    update,             \* history: the last update handled
    handler,            \* history: the callback that handled it
    out,                \* history: the transport calls of that callback, in order
    handler_raised,     \* history: that callback ended with an exception
    faulty,             \* updates so far during which a store read or a transport call failed
    prior,              \* history: after a dropped update, the callback that ran before it
    polling,            \* the behaviour follows the updates from their arrival on
    update_queue,       \* application.update_queue: updates fetched and not yet processed
    in_flight,          \* the updates whose processing has begun and not ended
    fetched             \* how many updates have been fetched

store == <<clients, serverName, changes>>
baselines == <<last_configs, last_clients>>
locals == <<changed_configs, cfg_todo, new_clients, new_todo, admin_todo>>
task == <<fails, monitoring_active, baselines, pc, locals, stopped, tasks>>
snaps == <<cur_configs, cur_clients>>
iter == <<iter_configs, iter_clients, iter_changes, read_failed, raised, tried_new>>
sent == <<sent_cfg, sent_new, undelivered>>
hist == <<snaps, iter, sent>>
monitor == <<monitoring_active, baselines, pc, locals, stopped, tasks>>
session == <<mail_state, report_state, user_data>>
dispatch == <<polling, update_queue, in_flight, fetched>>
conv == <<conv_on, track_failed, user, session, update, handler, out, handler_raised, faulty, prior, dispatch>>
vars == <<store, task, hist, conv>>

\* ------------------------------------------------------------ Python dicts
DictKeys(d) == {d[i].key : i \in DOMAIN d}

DictGet(d, k, default) ==
    IF k \in DictKeys(d) THEN d[CHOOSE i \in DOMAIN d : d[i].key = k].val ELSE default

\* d.setdefault(k, []).append(v)
DictAppend(d, k, v) ==
    IF k \in DictKeys(d)
    THEN [i \in DOMAIN d |-> IF d[i].key = k
                             THEN [key |-> k, val |-> Append(d[i].val, v)]
                             ELSE d[i]]
    ELSE Append(d, [key |-> k, val |-> <<v>>])

\* dict equality: same keys, same value under each key, whatever the insertion order
DictEq(a, b) ==
    /\ DictKeys(a) = DictKeys(b)
    /\ \A k \in DictKeys(a) : DictGet(a, k, <<>>) = DictGet(b, k, <<>>)

\* the (key, element) pairs in the order `for k, l in d.items(): for x in l` visits them
RECURSIVE Flatten(_)
Flatten(d) ==
    IF d = <<>> THEN <<>>
    ELSE [i \in 1..Len(d[1].val) |-> [tg_id |-> d[1].key, config_data |-> d[1].val[i]]]
         \o Flatten(Tail(d))

\* ------------------------------------------------------------- database.py
NoData == [none |-> TRUE]

\* ok = FALSE: the query or the JSON parse raised, the except clause returns None
get_inbound_data(ok) ==
    IF ok
    THEN [settings |-> [clients |-> clients], listen |-> Listen, port |-> Port,
          remark |-> Remark, stream_settings |-> [serverName |-> serverName]]
    ELSE NoData

ErrConfig == <<"server data error">>

generate_vless_config(client, inbound_data) ==
    IF inbound_data = NoData
    THEN ErrConfig
    ELSE <<"vless", client.id, inbound_data.listen, inbound_data.port,
           inbound_data.stream_settings.serverName, inbound_data.remark, client.email>>

\* mutant: the `if tg_id:` test of line 189 is missing
RECURSIVE user_configs_loop_KeepsUnowned(_, _, _)
user_configs_loop_KeepsUnowned(cs, rfail, user_configs) ==
    IF cs = <<>> THEN user_configs
    ELSE LET client == Head(cs)
             config_data == [email |-> client.email,
                             config |-> generate_vless_config(
                                           client, get_inbound_data(client.email \notin rfail)),
                             client_id |-> client.id,
                             client_data |-> client]
         IN user_configs_loop_KeepsUnowned(Tail(cs), rfail,
                DictAppend(user_configs, client.tgId, config_data))

RECURSIVE user_configs_loop(_, _, _)
user_configs_loop(cs, rfail, user_configs) ==
    IF cs = <<>> THEN user_configs
    ELSE LET client == Head(cs)
             tg_id == client.tgId
             config_data == [email |-> client.email,
                             config |-> generate_vless_config(
                                           client, get_inbound_data(client.email \notin rfail)),
                             client_id |-> client.id,
                             client_data |-> client]
         IN user_configs_loop(Tail(cs), rfail,
                IF tg_id # 0 THEN DictAppend(user_configs, tg_id, config_data)
                             ELSE user_configs)

\* ok: the read of the client list succeeds; rfail: the emails whose render fails to
\* read the inbound row (generate_vless_config reads it again for every client)
get_all_user_configs(ok, rfail) ==
    LET inbound_data == get_inbound_data(ok)
    IN IF inbound_data = NoData THEN <<>>
       ELSE user_configs_loop(inbound_data.settings.clients, rfail, <<>>)

\* mutant: the search tests `old_cfg['email'] != email`
FindOld_Inverted(old_user_configs, email) ==
    IF \E i \in DOMAIN old_user_configs : old_user_configs[i].email # email
    THEN <<old_user_configs[CHOOSE i \in DOMAIN old_user_configs :
                /\ old_user_configs[i].email # email
                /\ \A j \in 1..(i-1) : old_user_configs[j].email = email]>>
    ELSE <<>>

\* the first old entry with this email, or <<>> for None
FindOld(old_user_configs, email) ==
    IF \E i \in DOMAIN old_user_configs : old_user_configs[i].email = email
    THEN <<old_user_configs[CHOOSE i \in DOMAIN old_user_configs :
                /\ old_user_configs[i].email = email
                /\ \A j \in 1..(i-1) : old_user_configs[j].email # email]>>
    ELSE <<>>

\* mutant: the search takes the owner's first old entry whatever its email
ConfigDiffers_FirstOfOwner(old_user_configs, current_config) ==
    old_user_configs = <<>> \/ old_user_configs[1].config # current_config.config

ConfigDiffers(old_user_configs, current_config) ==
    LET old_config == FindOld(old_user_configs, current_config.email)
    IN old_config = <<>> \/ old_config[1].config # current_config.config

RECURSIVE changed_loop(_, _, _)
changed_loop(todo, old_configs, changed) ==
    IF todo = <<>> THEN changed
    ELSE LET tg_id == Head(todo).tg_id
             current_config == Head(todo).config_data
         IN changed_loop(Tail(todo), old_configs,
                IF ConfigDiffers(DictGet(old_configs, tg_id, <<>>), current_config)
                THEN DictAppend(changed, tg_id, current_config)
                ELSE changed)

\* mutant: a symmetric diff, which also reports the entries only the baseline has
check_config_changes_Symmetric(old_configs, current_configs) ==
    changed_loop(Flatten(old_configs), current_configs,
                 changed_loop(Flatten(current_configs), old_configs, <<>>))

\* current_configs is what get_all_user_configs() returned on line 209
check_config_changes(old_configs, current_configs) ==
    changed_loop(Flatten(current_configs), old_configs, <<>>)

\* ------------------------------------------ database.py, not in this tree
\* ListAccounts: the account list of the same settings blob, empty when it cannot be read
get_all_clients(ok) ==
    LET inbound_data == get_inbound_data(ok)
    IN IF inbound_data = NoData THEN <<>> ELSE inbound_data.settings.clients

\* account diff: every current account whose id the old list lacks
check_new_clients(old_clients, current_clients) ==
    LET old_ids == {old_clients[i].id : i \in DOMAIN old_clients}
    IN SelectSeq(current_clients, LAMBDA c : c.id \notin old_ids)

\* ------------------------------------------------------------------ bot.py
\* format_new_client_message: datetime.fromtimestamp(expiry_time / 1000) raises
\* ValueError when the year is out of range; nothing else in it raises
format_raises(client) == client.expiryTime # "0"

\* Python's None and a present value
None == <<>>
Some(v) == <<v>>

\* an empty context.user_data: the keys the handlers use
NoUserData ==
    [mail_text |-> None, mail_telegram_ids |-> None, mail_message_id |-> None,
     mail_chat_id |-> None, mail_confirm_message_id |-> None, report_data |-> None]

\* no conversation is active and no update has been handled
NoSession ==
    /\ mail_state = "END"
    /\ report_state = "END"
    /\ user_data = NoUserData
    /\ update = <<>>
    /\ handler = "none"
    /\ out = <<>>
    /\ handler_raised = FALSE
    /\ faulty = 0
    /\ prior = "none"
    /\ update_queue = <<>>
    /\ in_flight = <<>>
    /\ fetched = 0

Boot ==
    /\ clients = <<[id |-> 1, email |-> "e1", tgId |-> 1, expiryTime |-> "0"]>>
    /\ serverName = "a.com"
    /\ changes = 0
    /\ fails = 0
    /\ monitoring_active = FALSE
    /\ last_configs = <<>>
    /\ last_clients = <<>>
    /\ pc = "idle"
    /\ changed_configs = <<>>
    /\ cfg_todo = <<>>
    /\ new_clients = <<>>
    /\ new_todo = <<>>
    /\ admin_todo = <<>>
    /\ stopped = FALSE
    /\ tasks = 0
    /\ cur_configs = <<>>
    /\ cur_clients = <<>>
    /\ iter_configs = <<>>
    /\ iter_clients = <<>>
    /\ read_failed = FALSE
    /\ raised = FALSE
    /\ iter_changes = 0
    /\ tried_new = {}
    /\ sent_cfg = {}
    /\ sent_new = {}
    /\ undelivered = {}

\* the process has started; the monitor task is followed
Init ==
    /\ Boot
    /\ conv_on = FALSE
    /\ polling = FALSE
    /\ track_failed = FALSE
    /\ user = ADMIN_IDS[1]
    /\ NoSession

\* ---------------------------------------------------------- testdbchange.py
StoreEmails == {clients[i].email : i \in DOMAIN clients}

\* the monitor task is about to read the store: lines 892, 893, 898, 925, 951, 955;
\* or the update handlers are followed: a handler reads the store as it runs, and a
\* mutation falls between two updates
AboutToRead ==
    \/ pc \in {"created", "init_clients", "check_configs", "update_clients"}
    \/ pc = "send_configs" /\ cfg_todo = <<>>
    \/ pc = "notify_new" /\ new_todo = <<>>
    \/ conv_on

\* a store mutation while the bot runs; the sends attempted so far belong to an older
\* store.  The task sees the store only when it reads it, so a mutation made while it
\* sends or sleeps is taken just before its next read
StoreChanged ==
    /\ changes < MaxChanges
    /\ AboutToRead
    /\ changes' = changes + 1
    /\ sent_cfg' = {}
    /\ sent_new' = {}
    /\ undelivered' = {}
    /\ UNCHANGED <<task, snaps, iter, conv>>

\* uuid4() is fresh: no account ever had the id changes + 2 (the first account has 1)
create_test_client(email, tg_id, expiry_time) ==
    /\ email \notin StoreEmails
    /\ clients' = Append(clients, [id |-> changes + 2, email |-> email, tgId |-> tg_id,
                                   expiryTime |-> expiry_time])
    /\ StoreChanged
    /\ UNCHANGED serverName

delete_client(email) ==
    /\ email \in StoreEmails
    /\ clients' = SelectSeq(clients, LAMBDA c : c.email # email)
    /\ StoreChanged
    /\ UNCHANGED serverName

change_sni(new_sni) ==
    /\ new_sni # serverName
    /\ serverName' = new_sni
    /\ StoreChanged
    /\ UNCHANGED clients

\* ------------------------------------------------------------------ bot.py
\* one store access of the monitor task: the read of the client list succeeds or not
\* (ok) and the renders of the emails in rfail fail to read the inbound row
Reads(ok, rfail) ==
    LET failed == IF ok THEN Cardinality(rfail) ELSE 1
    IN /\ ~ok => rfail = {}
       /\ fails + failed <= MaxFails
       /\ fails' = fails + failed

NoRead(ok, rfail) == ok /\ rfail = {} /\ UNCHANGED fails

\* mutant: the hook runs again while the process lives, and creates a further task
post_init_Reentrant ==
    /\ tasks < 2
    /\ monitoring_active' = TRUE
    /\ tasks' = tasks + 1
    /\ pc' = "created"
    /\ UNCHANGED <<store, hist, fails, baselines, locals, stopped, conv>>

\* lines 1020-1030: run_polling calls the hook once, before it starts to fetch updates
post_init ==
    /\ pc = "idle"
    /\ monitoring_active' = TRUE
    /\ tasks' = tasks + 1
    /\ pc' = "created"
    /\ UNCHANGED <<store, hist, fails, baselines, locals, stopped, conv>>

\* the task's first step runs before the event loop runs anything else: lines 888-892
monitor_init_configs(ok, rfail) ==
    /\ pc = "created"
    /\ Reads(ok, rfail)
    /\ monitoring_active' = TRUE
    /\ last_configs' = get_all_user_configs(ok, rfail)
    /\ pc' = "init_clients"
    /\ UNCHANGED <<store, hist, last_clients, locals, stopped, tasks>>

\* mutant: `while True`
while_test_Forever ==
    /\ pc' = "check_configs"
    /\ iter_configs' = last_configs'
    /\ iter_clients' = last_clients'
    /\ iter_changes' = changes
    /\ read_failed' = FALSE
    /\ raised' = FALSE
    /\ tried_new' = {}
    /\ cur_configs' = <<>>
    /\ cur_clients' = <<>>
    /\ changed_configs' = <<>>
    /\ new_clients' = <<>>
    /\ cfg_todo' = <<>>
    /\ new_todo' = <<>>
    /\ admin_todo' = <<>>

\* line 895, the loop test; what the previous iteration left is history, and its
\* locals are dead (each is assigned again before it is read)
while_test ==
    /\ pc' = IF monitoring_active THEN "check_configs" ELSE "done"
    /\ iter_configs' = last_configs'
    /\ iter_clients' = last_clients'
    /\ iter_changes' = changes
    /\ read_failed' = FALSE
    /\ raised' = FALSE
    /\ tried_new' = {}
    /\ cur_configs' = <<>>
    /\ cur_clients' = <<>>
    /\ changed_configs' = <<>>
    /\ new_clients' = <<>>
    /\ cfg_todo' = <<>>
    /\ new_todo' = <<>>
    /\ admin_todo' = <<>>

\* lines 893-895
monitor_init_clients(ok) ==
    /\ pc = "init_clients"
    /\ Reads(ok, {})
    /\ last_clients' = get_all_clients(ok)
    /\ UNCHANGED <<store, monitoring_active, last_configs, stopped, tasks, sent>>
    /\ while_test

\* asyncio.sleep(30) of line 959 or asyncio.sleep(60) of line 963 returns: line 895
monitor_wake ==
    /\ pc \in {"sleep30", "sleep60"}
    /\ UNCHANGED <<store, fails, monitoring_active, baselines, stopped, tasks, sent>>
    /\ while_test

\* mutant: the baseline is replaced right after a non-empty diff, before the dispatch
monitor_check_configs_AdvancesBaseline(ok, rfail) ==
    /\ pc = "check_configs"
    /\ Reads(ok, rfail)
    /\ cur_configs' = get_all_user_configs(ok, rfail)
    /\ changed_configs' = check_config_changes(last_configs, cur_configs')
    /\ cfg_todo' = Flatten(changed_configs')
    /\ last_configs' = IF changed_configs' # <<>> THEN cur_configs' ELSE last_configs
    /\ read_failed' = (read_failed \/ ~ok \/ rfail # {})
    /\ pc' = "send_configs"
    /\ UNCHANGED <<store, monitoring_active, last_clients, new_clients, new_todo, admin_todo,
                   stopped, tasks, cur_clients, iter_configs, iter_clients, iter_changes, raised,
                   tried_new, sent>>

\* line 898
monitor_check_configs(ok, rfail) ==
    /\ pc = "check_configs"
    /\ Reads(ok, rfail)
    /\ cur_configs' = get_all_user_configs(ok, rfail)
    /\ changed_configs' = check_config_changes(last_configs, cur_configs')
    /\ cfg_todo' = Flatten(changed_configs')
    /\ read_failed' = (read_failed \/ ~ok \/ rfail # {})
    /\ pc' = "send_configs"
    /\ UNCHANGED <<store, monitoring_active, baselines, new_clients, new_todo, admin_todo,
                   stopped, tasks, cur_clients, iter_configs, iter_clients, iter_changes, raised,
                   tried_new, sent>>

\* the outcome of context.bot.send_message inside the try blocks of lines 913-922 and
\* 939-947: a failure is logged and the loop goes on
Delivery(delivered, event) ==
    undelivered' = IF track_failed /\ ~delivered /\ undelivered = {} THEN {event}
                   ELSE undelivered

\* lines 901-922, one pass of the inner loop.  delivered = FALSE: send_message raised;
\* the except clause of line 921 logs it and the loop goes on
monitor_send_config(delivered) ==
    /\ pc = "send_configs"
    /\ cfg_todo # <<>>
    /\ sent_cfg' = sent_cfg \cup {<<Head(cfg_todo).tg_id, Head(cfg_todo).config_data.email,
                                    Head(cfg_todo).config_data.config>>}
    /\ Delivery(delivered, <<"config", <<Head(cfg_todo).tg_id, Head(cfg_todo).config_data.email,
                                         Head(cfg_todo).config_data.config>>>>)
    /\ cfg_todo' = Tail(cfg_todo)
    /\ UNCHANGED <<store, fails, monitoring_active, baselines, pc, changed_configs, new_clients,
                   new_todo, admin_todo, stopped, tasks, snaps, iter, sent_new>>

\* line 925
monitor_check_new(ok) ==
    /\ pc = "send_configs"
    /\ cfg_todo = <<>>
    /\ Reads(ok, {})
    /\ cur_clients' = get_all_clients(ok)
    /\ new_clients' = check_new_clients(last_clients, cur_clients')
    /\ new_todo' = new_clients'
    /\ read_failed' = (read_failed \/ ~ok)
    /\ pc' = "notify_new"
    /\ UNCHANGED <<store, monitoring_active, baselines, changed_configs, cfg_todo, admin_todo,
                   stopped, tasks, cur_configs, iter_configs, iter_clients, iter_changes, raised,
                   tried_new, sent>>

\* mutant: the formatting error is not caught and ends the task
monitor_format_new_Uncaught ==
    /\ pc = "notify_new"
    /\ new_todo # <<>>
    /\ IF format_raises(Head(new_todo))
       THEN /\ raised' = TRUE
            /\ pc' = "done"
            /\ UNCHANGED <<admin_todo, new_todo>>
       ELSE /\ raised' = raised
            /\ admin_todo' = ADMIN_IDS
            /\ pc' = "send_new"
            /\ UNCHANGED new_todo
    /\ UNCHANGED <<store, fails, monitoring_active, baselines, changed_configs, cfg_todo,
                   new_clients, stopped, tasks, snaps, iter_configs, iter_clients, iter_changes,
                   read_failed, tried_new, sent>>

\* lines 928-935: the message is formatted before any administrator is tried; an
\* exception leaves the try block for the except clause of lines 961-963
monitor_format_new ==
    /\ pc = "notify_new"
    /\ new_todo # <<>>
    /\ IF format_raises(Head(new_todo))
       THEN /\ raised' = TRUE
            /\ pc' = "sleep60"
            /\ UNCHANGED <<admin_todo, new_todo>>
       ELSE /\ raised' = raised
            /\ IF ADMIN_IDS = <<>>
               THEN /\ new_todo' = Tail(new_todo)
                    /\ UNCHANGED <<pc, admin_todo>>
               ELSE /\ admin_todo' = ADMIN_IDS
                    /\ pc' = "send_new"
                    /\ UNCHANGED new_todo
    /\ UNCHANGED <<store, fails, monitoring_active, baselines, changed_configs, cfg_todo,
                   new_clients, stopped, tasks, snaps, iter_configs, iter_clients, iter_changes,
                   read_failed, tried_new, sent>>

\* lines 938-947, one pass of the inner loop.  delivered = FALSE: send_message raised;
\* the except clause of line 946 logs it and the loop goes on
monitor_send_new(delivered) ==
    /\ pc = "send_new"
    /\ sent_new' = sent_new \cup {<<Head(new_todo).id, Head(admin_todo)>>}
    /\ Delivery(delivered, <<"new", <<Head(new_todo).id, Head(admin_todo)>>>>)
    /\ tried_new' = tried_new \cup {<<Head(new_todo).id, Head(admin_todo)>>}
    /\ admin_todo' = Tail(admin_todo)
    /\ IF admin_todo' = <<>>
       THEN new_todo' = Tail(new_todo) /\ pc' = "notify_new"
       ELSE UNCHANGED <<new_todo, pc>>
    /\ UNCHANGED <<store, fails, monitoring_active, baselines, changed_configs, cfg_todo,
                   new_clients, stopped, tasks, snaps, iter_configs, iter_clients, iter_changes,
                   read_failed, raised, sent_cfg>>

\* lines 950-952
monitor_update_configs(ok, rfail) ==
    /\ pc = "notify_new"
    /\ new_todo = <<>>
    /\ IF changed_configs # <<>>
       THEN /\ Reads(ok, rfail)
            /\ last_configs' = get_all_user_configs(ok, rfail)
            /\ read_failed' = (read_failed \/ ~ok \/ rfail # {})
       ELSE /\ NoRead(ok, rfail)
            /\ UNCHANGED <<last_configs, read_failed>>
    /\ pc' = "update_clients"
    /\ UNCHANGED <<store, monitoring_active, last_clients, locals, stopped, tasks, snaps, iter_configs,
                   iter_clients, iter_changes, raised, tried_new, sent>>

\* mutant: the account baseline is read again on every tick
monitor_update_clients_EveryTick(ok) ==
    /\ pc = "update_clients"
    /\ Reads(ok, {})
    /\ last_clients' = get_all_clients(ok)
    /\ read_failed' = (read_failed \/ ~ok)
    /\ pc' = "sleep30"
    /\ UNCHANGED <<store, monitoring_active, last_configs, locals, stopped, tasks, snaps, iter_configs,
                   iter_clients, iter_changes, raised, tried_new, sent>>

\* lines 954-959
monitor_update_clients(ok) ==
    /\ pc = "update_clients"
    /\ IF new_clients # <<>>
       THEN /\ Reads(ok, {})
            /\ last_clients' = get_all_clients(ok)
            /\ read_failed' = (read_failed \/ ~ok)
       ELSE /\ NoRead(ok, {})
            /\ UNCHANGED <<last_clients, read_failed>>
    /\ pc' = "sleep30"
    /\ UNCHANGED <<store, monitoring_active, last_configs, locals, stopped, tasks, snaps, iter_configs,
                   iter_clients, iter_changes, raised, tried_new, sent>>

\* the places where the monitor task is suspended in an await
AtAwait ==
    \/ pc = "send_configs" /\ cfg_todo # <<>>
    \/ pc \in {"send_new", "sleep30", "sleep60"}

\* mutant: the stop hook may also run between create_task and the task's first step
post_stop_BeforeFirstStep ==
    /\ ~stopped
    /\ AtAwait \/ pc \in {"done", "created"}
    /\ monitoring_active' = FALSE
    /\ stopped' = TRUE
    /\ UNCHANGED <<store, hist, fails, baselines, pc, locals, tasks, conv>>

\* runs once, at shutdown, in a task of the same event loop
post_stop ==
    /\ ~stopped
    /\ AtAwait \/ pc = "done"
    /\ monitoring_active' = FALSE
    /\ stopped' = TRUE
    /\ UNCHANGED <<store, hist, fails, baselines, pc, locals, tasks, conv>>

Store ==
    \/ \E email \in Emails, tg_id \in TgIds, expiry_time \in ExpiryTimes :
           create_test_client(email, tg_id, expiry_time)
    \/ \E email \in Emails : delete_client(email)
    \/ \E new_sni \in ServerNames : change_sni(new_sni)

Monitor ==
    /\ UNCHANGED conv
    /\ \/ \E ok \in BOOLEAN, rfail \in SUBSET StoreEmails : monitor_init_configs(ok, rfail)
       \/ \E ok \in BOOLEAN : monitor_init_clients(ok)
       \/ \E ok \in BOOLEAN, rfail \in SUBSET StoreEmails : monitor_check_configs(ok, rfail)
       \/ \E delivered \in BOOLEAN : monitor_send_config(delivered)
       \/ \E ok \in BOOLEAN : monitor_check_new(ok)
       \/ monitor_format_new
       \/ \E delivered \in BOOLEAN : monitor_send_new(delivered)
       \/ \E ok \in BOOLEAN, rfail \in SUBSET StoreEmails : monitor_update_configs(ok, rfail)
       \/ \E ok \in BOOLEAN : monitor_update_clients(ok)
       \/ monitor_wake

Next == post_init \/ Monitor \/ post_stop \/ Store

Spec == Init /\ [][Next]_vars

\* the monitor task, with the history of the failed sends kept
DeliveryInit ==
    /\ Boot
    /\ conv_on = FALSE
    /\ polling = FALSE
    /\ track_failed = TRUE
    /\ user = ADMIN_IDS[1]
    /\ NoSession

DeliverySpec == DeliveryInit /\ [][Next]_vars

\* the event loop keeps running the monitor task: a sleep and a send return
FairSpec == Spec /\ WF_vars(Monitor)

\* ------------------------------------------------- bot.py, update handlers
\* An update is handled to its end before the next update of the same user is taken.
\* A handler is run as a record: the user_data it has written, the transport calls it
\* has made, and st: "run" while it runs, "raise" once a call outside any try block
\* has failed, otherwise the state it returned.
Texts == {" ", " a "}
\* mutant: the input is tested without str.strip()
Strip_Nothing(t) == t

\* str.strip()
Strip(t) == CASE t = " " -> "" [] t = " a " -> "a" [] OTHER -> t

Users == {1, 2}

\* mutant: everybody is an administrator
is_admin_Everybody(user_id) == TRUE

is_admin(user_id) == \E i \in DOMAIN ADMIN_IDS : ADMIN_IDS[i] = user_id

\* mutant: the tgId test of line 49 is missing
get_user_clients_OfAnyOwner(ok, telegram_id) ==
    LET inbound_data == get_inbound_data(ok)
    IN IF inbound_data = NoData THEN <<>> ELSE inbound_data.settings.clients

get_user_clients(ok, telegram_id) ==
    LET inbound_data == get_inbound_data(ok)
    IN IF inbound_data = NoData THEN <<>>
       ELSE SelectSeq(inbound_data.settings.clients, LAMBDA c : c.tgId = telegram_id)

\* mutant: every caller is authorized
is_user_authorized_Everybody(ok, telegram_id) == TRUE

is_user_authorized(ok, telegram_id) == Len(get_user_clients(ok, telegram_id)) > 0

\* database.py, not in this tree: the known subscriber identities, each once
RECURSIVE UniqueTgIds(_, _)
UniqueTgIds(cs, seen) ==
    IF cs = <<>> THEN seen
    ELSE UniqueTgIds(Tail(cs),
             IF Head(cs).tgId = 0 \/ \E i \in DOMAIN seen : seen[i] = Head(cs).tgId
             THEN seen ELSE Append(seen, Head(cs).tgId))
get_all_unique_telegram_ids(ok) == UniqueTgIds(get_all_clients(ok), <<>>)

Start(ud) == [ud |-> ud, out |-> <<>>, st |-> "run"]

\* an awaited transport call; caught: it stands in a try block that only logs
Call(r, op, to, body, failed, caught) ==
    IF r.st # "run" THEN r
    ELSE [r EXCEPT !.out = Append(@, [op |-> op, to |-> to, body |-> body, ok |-> ~failed]),
                   !.st = IF failed /\ ~caught THEN "raise" ELSE "run"]

\* context.user_data[key] = val
Put(r, key, val) == IF r.st # "run" THEN r ELSE [r EXCEPT !.ud[key] = Some(val)]

\* context.user_data.pop(key, None) for every key of keys
Pop(r, keys) ==
    IF r.st # "run" THEN r
    ELSE [r EXCEPT !.ud = [k \in DOMAIN @ |-> IF k \in keys THEN None ELSE @[k]]]

Return(r, state) == IF r.st # "run" THEN r ELSE [r EXCEPT !.st = state]

\* the message ids user_data refers to, and the id of the next message of the chat: it
\* differs from every id still referred to. Ids are opaque, so the prompts of /mail
\* are numbered from 1 and the prompts of /report from ReportBase + 1
LiveIds(ud) ==
    {ud.mail_message_id[i] : i \in DOMAIN ud.mail_message_id}
    \cup {ud.mail_confirm_message_id[i] : i \in DOMAIN ud.mail_confirm_message_id}
    \cup (IF ud.report_data = None THEN {}
          ELSE {ud.report_data[1].message_ids[i] : i \in DOMAIN ud.report_data[1].message_ids})
ReportBase == 10
FreshId(ud, base) ==
    CHOOSE n \in (base + 1)..(base + Cardinality(LiveIds(ud)) + 1) :
        n \notin LiveIds(ud) /\ \A m \in (base + 1)..(n - 1) : m \in LiveIds(ud)

\* edit_message_reply_markup(reply_markup=None) inside try/except
Retract(r, message_id, R) == Call(r, "retract", message_id, <<>>, message_id \in R, TRUE)

MailKeys == {"mail_text", "mail_telegram_ids", "mail_message_id", "mail_chat_id"}

\* the update has been handled by callback `name` of conversation `flow`; a callback
\* that raised leaves the conversation state as it was
\* the processing of upd ends. Where the updates are not followed from their arrival
\* on, an update is fetched and processed in one step
Without(q, i) == SubSeq(q, 1, i - 1) \o SubSeq(q, i + 1, Len(q))
Returns(upd) ==
    IF polling
    THEN /\ \E i \in DOMAIN in_flight : in_flight[i] = upd /\ in_flight' = Without(in_flight, i)
         /\ UNCHANGED <<polling, update_queue, fetched>>
    ELSE UNCHANGED dispatch

Handled(name, flow, upd, ok, r) ==
    /\ update' = upd
    /\ prior' = "none"
    /\ handler' = name
    /\ out' = r.out
    /\ handler_raised' = (r.st = "raise")
    /\ LET n == IF ~ok \/ \E i \in DOMAIN r.out : ~r.out[i].ok THEN 1 ELSE 0
       IN faulty + n <= MaxFaulty /\ faulty' = faulty + n
    /\ user_data' = r.ud
    /\ IF flow = "mail"
       THEN /\ mail_state' = (IF r.st = "raise" THEN mail_state ELSE r.st)
            /\ UNCHANGED report_state
       ELSE /\ report_state' = (IF r.st = "raise" THEN report_state ELSE r.st)
            /\ UNCHANGED mail_state
    /\ Returns(upd)
    /\ UNCHANGED <<store, task, hist, conv_on, track_failed, user>>

\* ---------------------------------------------------------------- /mail
\* entry point of mail_conv_handler: only taken while the conversation is not active
mail_start(F) ==
    /\ conv_on
    /\ mail_state = "END"
    /\ Handled("mail_start", "mail", <<"command", "/mail">>, TRUE,
          IF ~is_admin(user)
          THEN Return(Call(Start(user_data), "reject", user, <<>>, "reject" \in F, FALSE), "END")
          ELSE LET r1 == Pop(Start(user_data), MailKeys)
                   r2 == Call(r1, "prompt", user, <<>>, "prompt" \in F, FALSE)
                   r3 == Put(Put(r2, "mail_message_id", FreshId(r1.ud, 0)), "mail_chat_id", user)
               IN Return(r3, "MAIL_WAITING_MESSAGE"))

\* lines 446-457
RetractFirstPrompt(r, R) ==
    IF r.ud.mail_message_id # None /\ r.ud.mail_chat_id # None
    THEN Retract(r, r.ud.mail_message_id[1], R)
    ELSE r

\* state MAIL_WAITING_MESSAGE, a text message that is no command
mail_receive_message(message_text, ok, F, R) ==
    /\ conv_on
    /\ mail_state = "MAIL_WAITING_MESSAGE"
    /\ (is_admin(user) /\ Strip(message_text) # "") \/ ok
    /\ Handled("mail_receive_message", "mail", <<"text", message_text>>, ok,
          IF ~is_admin(user)
          THEN Return(Call(Start(user_data), "reject", user, <<>>, "reject" \in F, FALSE), "END")
          ELSE IF Strip(message_text) = ""
          THEN Return(Call(Start(user_data), "reprompt", user, <<>>, "reprompt" \in F, FALSE),
                      "MAIL_WAITING_MESSAGE")
          ELSE LET r1 == RetractFirstPrompt(Start(user_data), R)
                   telegram_ids == get_all_unique_telegram_ids(ok)
               IN IF telegram_ids = <<>>
                  THEN Return(Call(r1, "no_users", user, <<>>, "no_users" \in F, FALSE), "END")
                  ELSE LET r2 == Put(Put(r1, "mail_text", message_text),
                                     "mail_telegram_ids", telegram_ids)
                           r3 == Call(r2, "stats", user, <<Len(telegram_ids)>>,
                                      "stats" \in F, FALSE)
                           r4 == Call(r3, "preview", user, <<message_text>>,
                                      "preview" \in F, FALSE)
                           r5 == Call(r4, "confirm_prompt", user, <<>>,
                                      "confirm_prompt" \in F, FALSE)
                           r6 == Put(r5, "mail_confirm_message_id", FreshId(r2.ud, 0))
                       IN Return(r6, "MAIL_CONFIRM"))

\* mutant: the except clause of line 532 re-raises
RECURSIVE SendAll_StopsAtFailure(_, _, _, _, _)
SendAll_StopsAtFailure(r, op, ids, body, D) ==
    IF ids = <<>> THEN r
    ELSE SendAll_StopsAtFailure(Call(r, op, Head(ids), body, Head(ids) \in D, FALSE),
                                op, Tail(ids), body, D)

\* a for loop over recipients with the send in a try block that only logs or counts:
\* lines 524-534 and 797-806
RECURSIVE SendAll(_, _, _, _, _)
SendAll(r, op, ids, body, D) ==
    IF ids = <<>> THEN r
    ELSE SendAll(Call(r, op, Head(ids), body, Head(ids) \in D, TRUE), op, Tail(ids), body, D)

Count(q, op, ok) == Cardinality({i \in DOMAIN q : q[i].op = op /\ q[i].ok = ok})

AllMailKeys == MailKeys \cup {"mail_confirm_message_id"}

\* mutant: the recipients are computed again from the store at the confirm tap
mail_confirm_Recomputes(r0, msg, F, D) ==
    LET r1 == Call(r0, "answer", user, <<>>, "answer" \in F, FALSE)
        r2 == Call(r1, "progress", msg, <<>>, "progress" \in F, FALSE)
        mail_text == r2.ud.mail_text
        telegram_ids == get_all_unique_telegram_ids(TRUE)
    IN IF mail_text = None \/ telegram_ids = <<>>
       THEN Return(Call(r2, "answer_error", user, <<>>, "answer_error" \in F, FALSE), "END")
       ELSE LET r3 == SendAll(r2, "broadcast", telegram_ids, mail_text, D)
                r4 == Call(r3, "result", user,
                           <<Count(r3.out, "broadcast", TRUE), Count(r3.out, "broadcast", FALSE),
                             Len(telegram_ids)>>, "result" \in F, FALSE)
                r5 == Pop(r4, AllMailKeys)
                r6 == Call(r5, "menu", user, <<>>, "menu" \in F, FALSE)
            IN Return(r6, "END")

\* lines 505-557
mail_confirm(r0, msg, F, D) ==
    LET r1 == Call(r0, "answer", user, <<>>, "answer" \in F, FALSE)
        r2 == Call(r1, "progress", msg, <<>>, "progress" \in F, FALSE)
        mail_text == r2.ud.mail_text
        telegram_ids == r2.ud.mail_telegram_ids
    IN IF mail_text = None \/ telegram_ids = None
       THEN Return(Call(r2, "answer_error", user, <<>>, "answer_error" \in F, FALSE), "END")
       ELSE LET r3 == SendAll(r2, "broadcast", telegram_ids[1], mail_text, D)
                r4 == Call(r3, "result", user,
                           <<Count(r3.out, "broadcast", TRUE), Count(r3.out, "broadcast", FALSE),
                             Len(telegram_ids[1])>>, "result" \in F, FALSE)
                r5 == Pop(r4, AllMailKeys)
                r6 == Call(r5, "menu", user, <<>>, "menu" \in F, FALSE)
            IN Return(r6, "END")

\* lines 559-573
mail_cancel_confirm(r0, msg, F) ==
    LET r1 == Call(r0, "answer", user, <<>>, "answer" \in F, FALSE)
        r2 == Call(r1, "cancelled", msg, <<>>, "cancelled" \in F, FALSE)
        r3 == Pop(r2, AllMailKeys)
        r4 == Call(r3, "menu", user, <<>>, "menu" \in F, FALSE)
    IN Return(r4, "END")

CallbackData == {"mail_confirm", "mail_cancel_confirm", "mail_cancel", "report_cancel"}

\* state MAIL_CONFIRM: a CallbackQueryHandler without pattern, it takes every callback
\* query; msg is the message that carries the pressed button
mail_handle_confirm_button(callback_data, msg, F, D) ==
    /\ conv_on
    /\ mail_state = "MAIL_CONFIRM"
    /\ Handled("mail_handle_confirm_button", "mail", <<"callback", callback_data, msg>>, TRUE,
          CASE callback_data = "mail_confirm" -> mail_confirm(Start(user_data), msg, F, D)
            [] callback_data = "mail_cancel_confirm" ->
                   mail_cancel_confirm(Start(user_data), msg, F)
            [] OTHER -> Return(Call(Start(user_data), "answer", user, <<>>, "answer" \in F, FALSE),
                               "MAIL_CONFIRM"))

\* fallback of mail_conv_handler, pattern ^mail_cancel$: reached only when the handler
\* of the current state does not take the update, that is in MAIL_WAITING_MESSAGE
mail_cancel_handler(msg, F, R) ==
    /\ conv_on
    /\ mail_state = "MAIL_WAITING_MESSAGE"
    /\ Handled("mail_cancel_handler", "mail", <<"callback", "mail_cancel", msg>>, TRUE,
          LET r1 == Call(Start(user_data), "answer", user, <<>>, "answer" \in F, FALSE)
              r2 == RetractFirstPrompt(r1, R)
              r3 == IF r2.ud.mail_confirm_message_id # None
                    THEN Retract(r2, r2.ud.mail_confirm_message_id[1], R)
                    ELSE r2
              r4 == Pop(r3, AllMailKeys)
              r5 == Call(r4, "menu", user, <<>>, "menu" \in F, FALSE)
          IN Return(r5, "END"))

\* -------------------------------------------------------------- /report
NewReportData == [provider |-> None, device |-> None, comments |-> None, message_ids |-> <<>>]

\* report_data[field] = val and report_data['message_ids'].append(id): the dict is the
\* one user_data holds, so the write is kept when the callback raises later
SetField(r, field, val) ==
    IF r.st # "run" THEN r
    ELSE [r EXCEPT !.ud.report_data = Some([@[1] EXCEPT ![field] = Some(val)])]
AppendId(r, id) ==
    IF r.st # "run" THEN r
    ELSE [r EXCEPT !.ud.report_data = Some([@[1] EXCEPT !.message_ids = Append(@, id)])]

\* `if report_data.get('message_ids'):` retract the last one, inside try/except
RetractLastPrompt(r, R) ==
    LET message_ids == r.ud.report_data[1].message_ids
    IN IF message_ids # <<>> THEN Retract(r, message_ids[Len(message_ids)], R) ELSE r

\* entry point of report_conv_handler: only taken while the conversation is not active
report_start(ok, F) ==
    /\ conv_on
    /\ report_state = "END"
    /\ Handled("report_start", "report", <<"command", "/report">>, ok,
          IF ~is_user_authorized(ok, user)
          THEN Return(Call(Start(user_data), "reject", user, <<>>, "reject" \in F, FALSE), "END")
          ELSE LET r1 == Put(Start(user_data), "report_data", NewReportData)
                   r2 == Call(r1, "prompt", user, <<>>, "prompt" \in F, FALSE)
                   r3 == AppendId(r2, FreshId(user_data, ReportBase))
               IN Return(r3, "REPORT_PROVIDER"))

\* lines 660-701 and 703-744: the two callbacks differ in the field and the next state
report_step(state, field, next_state, message_text, F, R) ==
    IF Strip(message_text) = ""
    THEN Return(Call(Start(user_data), "reprompt", user, <<>>, "reprompt" \in F, FALSE), state)
    ELSE IF user_data.report_data = None
    THEN Return(Call(Start(user_data), "lost", user, <<>>, "lost" \in F, FALSE), "END")
    ELSE LET r1 == SetField(Start(user_data), field, Strip(message_text))
             r2 == RetractLastPrompt(r1, R)
             r3 == Call(r2, "prompt", user, <<>>, "prompt" \in F, FALSE)
             r4 == AppendId(r3, FreshId(user_data, ReportBase))
         IN Return(r4, next_state)

\* mutant: the text handlers of report_conv_handler are also tried while it is not active
ReportTakesText_WhenIdle(state) ==
    /\ conv_on
    /\ mail_state # "MAIL_WAITING_MESSAGE"
    /\ report_state \in {state, "END"}

\* a text message that is no command goes to mail_conv_handler, added first, when that
\* is in MAIL_WAITING_MESSAGE, and to report_conv_handler otherwise
ReportTakesText(state) ==
    /\ conv_on
    /\ mail_state # "MAIL_WAITING_MESSAGE"
    /\ report_state = state

report_provider(message_text, F, R) ==
    /\ ReportTakesText("REPORT_PROVIDER")
    /\ Handled("report_provider", "report", <<"text", message_text>>, TRUE,
          report_step("REPORT_PROVIDER", "provider", "REPORT_DEVICE", message_text, F, R))

report_device(message_text, F, R) ==
    /\ ReportTakesText("REPORT_DEVICE")
    /\ Handled("report_device", "report", <<"text", message_text>>, TRUE,
          report_step("REPORT_DEVICE", "device", "REPORT_COMMENTS", message_text, F, R))

\* lines 746-816
report_comments(message_text, F, R, D) ==
    /\ ReportTakesText("REPORT_COMMENTS")
    /\ Handled("report_comments", "report", <<"text", message_text>>, TRUE,
          IF Strip(message_text) = ""
          THEN Return(Call(Start(user_data), "reprompt", user, <<>>, "reprompt" \in F, FALSE),
                      "REPORT_COMMENTS")
          ELSE IF user_data.report_data = None
          THEN Return(Call(Start(user_data), "lost", user, <<>>, "lost" \in F, FALSE), "END")
          ELSE LET r1 == SetField(Start(user_data), "comments", Strip(message_text))
                   r2 == RetractLastPrompt(r1, R)
                   r3 == Call(r2, "ack", user, <<>>, "ack" \in F, FALSE)
                   report_data == r1.ud.report_data[1]
                   r4 == SendAll(r3, "report", ADMIN_IDS,
                                 <<user, report_data.provider, report_data.device,
                                   report_data.comments>>, D)
                   r5 == Pop(r4, {"report_data"})
                   r6 == Call(r5, "menu", user, <<>>, "menu" \in F, FALSE)
               IN Return(r6, "END"))

RECURSIVE RetractAll(_, _, _)
RetractAll(r, message_ids, R) ==
    IF message_ids = <<>> THEN r
    ELSE RetractAll(Retract(r, Head(message_ids), R), Tail(message_ids), R)

\* fallback of report_conv_handler, pattern ^report_cancel$; in MAIL_CONFIRM
\* mail_conv_handler, added first, takes every callback query
report_cancel_handler(msg, F, R) ==
    /\ conv_on
    /\ mail_state # "MAIL_CONFIRM"
    /\ report_state # "END"
    /\ Handled("report_cancel_handler", "report", <<"callback", "report_cancel", msg>>, TRUE,
          LET r1 == Call(Start(user_data), "answer", user, <<>>, "answer" \in F, FALSE)
              message_ids == IF user_data.report_data = None THEN <<>>
                             ELSE user_data.report_data[1].message_ids
              r2 == RetractAll(r1, message_ids, R)
              r3 == Pop(r2, {"report_data"})
              r4 == Call(r3, "menu", msg, <<>>, "menu" \in F, FALSE)
          IN Return(r4, "END"))

\* ---------------------------------------------------------- the dispatcher
\* a callback query neither conversation takes goes to button_callback, added last
\* (line 1018): mail_conv_handler takes every query in MAIL_CONFIRM and "mail_cancel" in
\* MAIL_WAITING_MESSAGE, report_conv_handler takes "report_cancel" while it is active
TakenByConversation(callback_data) ==
    \/ mail_state = "MAIL_CONFIRM"
    \/ mail_state = "MAIL_WAITING_MESSAGE" /\ callback_data = "mail_cancel"
    \/ report_state # "END" /\ callback_data = "report_cancel"

\* the payloads of the config buttons, and query.data.replace(prefix, "")
ConfigData == {"config_e1", "config_e2"}
AdminConfigData == {"admin_config_1", "admin_config_2", "admin_config_3"}
EmailOf(callback_data) == CASE callback_data = "config_e1" -> "e1" [] OTHER -> "e2"
ClientIdOf(callback_data) ==
    CASE callback_data = "admin_config_1" -> 1
      [] callback_data = "admin_config_2" -> 2
      [] OTHER -> 3

\* lines 304-322: every client of user_clients is rendered, each render reads the
\* inbound row again
Rendered(user_clients, rfail) ==
    [i \in DOMAIN user_clients |->
        <<user_clients[i].email,
          generate_vless_config(user_clients[i],
                                get_inbound_data(user_clients[i].email \notin rfail))>>]

\* lines 297-322: the email of the payload is parsed and not used
config_button(r0, callback_data, msg, ok, rfail, F) ==
    LET email == EmailOf(callback_data)
        user_clients == get_user_clients(ok, user)
    IN IF user_clients = <<>>
       THEN Call(r0, "not_found", user, <<>>, "not_found" \in F, FALSE)
       ELSE Call(r0, "configs", user, Rendered(user_clients, rfail), "configs" \in F, FALSE)

\* lines 353-394
admin_config_button(r0, callback_data, msg, ok, rfail, F, R, D) ==
    IF ~is_admin(user)
    THEN Call(r0, "answer_denied", user, <<>>, "answer_denied" \in F, FALSE)
    ELSE LET client_id == ClientIdOf(callback_data)
             found == SelectSeq(get_all_clients(ok), LAMBDA c : c.id = client_id)
         IN IF found = <<>>
            THEN Call(r0, "answer_not_found", user, <<>>, "answer_not_found" \in F, FALSE)
            ELSE LET r1 == Retract(r0, msg, R)
                     r2 == Call(r1, "admin_config", user, Rendered(<<found[1]>>, rfail),
                                user \in D, TRUE)
                 IN IF user \in D
                    THEN Call(r2, "answer_error", user, <<>>, "answer_error" \in F, FALSE)
                    ELSE r2

\* lines 290-396: the query is answered, then the branch its data selects runs; the
\* data of the buttons of the two flows selects no branch
button_callback(callback_data, msg, ok, rfail, F, R, D) ==
    /\ conv_on
    /\ ~TakenByConversation(callback_data)
    /\ Handled("button_callback", "mail", <<"callback", callback_data, msg>>,
          ok /\ rfail = {},
          LET r1 == Call(Start(user_data), "answer", user, <<>>, "answer" \in F, FALSE)
              r2 == CASE callback_data \in ConfigData ->
                             config_button(r1, callback_data, msg, ok, rfail, F)
                      [] callback_data \in AdminConfigData ->
                             admin_config_button(r1, callback_data, msg, ok, rfail, F, R, D)
                      [] OTHER -> r1
          IN Return(r2, mail_state))

\* the updates no handler takes. A text message that is no command while neither
\* conversation waits for a text: no handler outside the conversations takes messages.
\* /mail or /report while its conversation is active: the entry points of an active
\* ConversationHandler are not tried (no allow_reentry, lines 976-1013), the handlers
\* of its states take no command and its fallbacks take callback queries only
Dropped(upd) ==
    CASE upd[1] = "text" -> mail_state # "MAIL_WAITING_MESSAGE" /\ report_state = "END"
      [] upd = <<"command", "/mail">> -> mail_state # "END"
      [] upd = <<"command", "/report">> -> report_state # "END"
      [] OTHER -> FALSE

no_handler(upd) ==
    /\ conv_on
    /\ Dropped(upd)
    /\ update' = upd
    /\ handler' = "none"
    /\ out' = <<>>
    /\ handler_raised' = FALSE
    /\ prior' = (IF handler = "none" THEN prior ELSE handler)
    /\ Returns(upd)
    /\ UNCHANGED <<store, task, hist, conv_on, track_failed, user, session, faulty>>

\* an awaited call that raises ends the callback, so at most one call outside a
\* try block fails in one run: the choice is none of them or one of them
OneOf(ops) == {{}} \cup {{op} : op \in ops}
OptIds(opt) == {opt[i] : i \in DOMAIN opt}
LastOf(q) == IF q = <<>> THEN {} ELSE {q[Len(q)]}
ReportIds ==
    IF user_data.report_data = None THEN <<>> ELSE user_data.report_data[1].message_ids
Recipients == UNION {{q[i] : i \in DOMAIN q} : q \in OptIds(user_data.mail_telegram_ids)}
Admins == {ADMIN_IDS[i] : i \in DOMAIN ADMIN_IDS}

\* the callback data a button carries and the message the button is on: a prompt
\* user_data still refers to, or (0) a message it no longer refers to
Buttons ==
    ({"mail_confirm", "mail_cancel_confirm"} \X (OptIds(user_data.mail_confirm_message_id) \cup {0}))
    \cup ({"mail_cancel"} \X (OptIds(user_data.mail_message_id) \cup {0}))
    \cup ({"report_cancel"} \X ({ReportIds[i] : i \in DOMAIN ReportIds} \cup {0}))
    \cup {<<in_flight[i][2], in_flight[i][3]>> :
             i \in {j \in DOMAIN in_flight : in_flight[j][1] = "callback"}}

\* the calls outside a try block that a run of the callback makes
TextOps(message_text, ops) == IF Strip(message_text) = "" THEN {"reprompt"} ELSE ops
ButtonOps(callback_data) ==
    CASE callback_data = "mail_confirm" -> {"answer", "progress", "answer_error", "result", "menu"}
      [] callback_data = "mail_cancel_confirm" -> {"answer", "cancelled", "menu"}
      [] OTHER -> {"answer"}

Handlers ==
    \/ \E F \in OneOf({IF is_admin(user) THEN "prompt" ELSE "reject"}) : mail_start(F)
    \/ \E message_text \in Texts, ok \in BOOLEAN, R \in SUBSET OptIds(user_data.mail_message_id) :
         \E F \in OneOf(TextOps(message_text, {"no_users", "stats", "preview", "confirm_prompt"})) :
           mail_receive_message(message_text, ok, F, R)
    \/ \E b \in Buttons : \E F \in OneOf(ButtonOps(b[1])),
          D \in (IF b[1] = "mail_confirm" THEN SUBSET Recipients ELSE {{}}) :
           mail_handle_confirm_button(b[1], b[2], F, D)
    \/ \E b \in Buttons, F \in OneOf({"answer", "menu"}),
          R \in SUBSET (OptIds(user_data.mail_message_id)
                        \cup OptIds(user_data.mail_confirm_message_id)) :
           b[1] = "mail_cancel" /\ mail_cancel_handler(b[2], F, R)
    \/ \E ok \in BOOLEAN, F \in OneOf({"reject", "prompt"}) : report_start(ok, F)
    \/ \E message_text \in Texts, R \in SUBSET LastOf(ReportIds) :
         \E F \in OneOf(TextOps(message_text, {"lost", "prompt"})) :
           report_provider(message_text, F, R)
    \/ \E message_text \in Texts, R \in SUBSET LastOf(ReportIds) :
         \E F \in OneOf(TextOps(message_text, {"lost", "prompt"})) :
           report_device(message_text, F, R)
    \/ \E message_text \in Texts, R \in SUBSET LastOf(ReportIds) :
         \E F \in OneOf(TextOps(message_text, {"lost", "ack", "menu"})),
            D \in (IF Strip(message_text) = "" THEN {{}} ELSE SUBSET Admins) :
           report_comments(message_text, F, R, D)
    \/ \E b \in Buttons, F \in OneOf({"answer", "menu"}),
          R \in SUBSET {ReportIds[i] : i \in DOMAIN ReportIds} :
           b[1] = "report_cancel" /\ report_cancel_handler(b[2], F, R)
    \/ \E b \in Buttons, F \in OneOf({"answer"}) :
           button_callback(b[1], b[2], TRUE, {}, F, {}, {})
    \/ \E upd \in ({"text"} \X Texts) \cup ({"command"} \X {"/mail", "/report"}) :
           no_handler(upd)

\* the updates the user can send: a text, an entry command, a press of a button
Arrivals ==
    ({"text"} \X Texts) \cup ({"command"} \X {"/mail", "/report"})
    \cup {<<"callback", b[1], b[2]>> : b \in Buttons}

\* the updater (run_polling, line 1044) puts a fetched update on the queue
get_updates(upd) ==
    /\ polling
    /\ fetched < MaxUpdates
    /\ fetched' = fetched + 1
    /\ update_queue' = Append(update_queue, upd)
    /\ UNCHANGED <<store, task, hist, conv_on, track_failed, user, session, update, handler, out,
                   handler_raised, faulty, prior, polling, in_flight>>

\* mutant: the application is built with concurrent_updates(True)
concurrent_updates_Enabled == TRUE

\* Application.builder().token(BOT_TOKEN).build(), line 968: concurrent_updates is left
\* at its default, and no handler is added with block=False
concurrent_updates == FALSE

\* the update fetcher of the application takes the next update off the queue: at once
\* with concurrent_updates, and otherwise after the processing of the previous update,
\* the handler's callback included, has ended
process_update ==
    /\ polling
    /\ update_queue # <<>>
    /\ concurrent_updates \/ in_flight = <<>>
    /\ in_flight' = Append(in_flight, Head(update_queue))
    /\ update_queue' = Tail(update_queue)
    /\ UNCHANGED <<store, task, hist, conv_on, track_failed, user, session, update, handler, out,
                   handler_raised, faulty, prior, polling, fetched>>

\* the update handlers of one user, followed from the arrival of the updates on
DispatchInit ==
    /\ Boot
    /\ conv_on = TRUE
    /\ polling = TRUE
    /\ track_failed = FALSE
    /\ user \in Users
    /\ NoSession

DispatchNext == (\E upd \in Arrivals : get_updates(upd)) \/ process_update \/ Handlers
DispatchSpec == DispatchInit /\ [][DispatchNext]_vars

\* the process has started; the update handlers of one user are followed
ConvInit ==
    /\ Boot
    /\ conv_on = TRUE
    /\ polling = FALSE
    /\ track_failed = FALSE
    /\ user \in Users
    /\ NoSession

ConvNext == Handlers \/ Store

\* the handlers share no variable with the monitor task, and both only read the store
ConvSpec == ConvInit /\ [][ConvNext]_vars

\* the presses of the config buttons: of a config message's button and of the button of
\* a new-client notification, by an administrator or by a subscriber, with any payload
ConfigPress ==
    \E callback_data \in ConfigData \cup AdminConfigData, ok \in BOOLEAN,
       rfail \in SUBSET Emails, R \in SUBSET {0}, D \in SUBSET {user} :
        \E F \in OneOf({"answer", "not_found", "configs", "answer_denied", "answer_not_found",
                        "answer_error"}) :
            /\ ~ok => rfail = {}
            /\ button_callback(callback_data, 0, ok, rfail, F, R, D)
DisclosureNext == ConfigPress \/ Store
DisclosureSpec == ConvInit /\ [][DisclosureNext]_vars

\* the behaviours of the monitor task together with the behaviours of the handlers
BothNext == (~conv_on /\ (post_init \/ Monitor \/ post_stop)) \/ Handlers \/ Store
BothSpec == (Init \/ ConvInit) /\ [][BothNext]_vars

\* ================================================================== claims
Range(q) == {q[i] : i \in DOMAIN q}
Ids(cs) == {cs[i].id : i \in DOMAIN cs}
\* the (ownerId, email) pairs of a config snapshot and the config of one of them
Pairs(d) == {<<e.tg_id, e.config_data.email>> : e \in Range(Flatten(d))}
ConfigOf(d, p) ==
    (CHOOSE e \in Range(Flatten(d)) : <<e.tg_id, e.config_data.email>> = p).config_data.config
\* the pairs of new whose rendered config old lacks or has with another value
DiffPairs(old, new) ==
    {p \in Pairs(new) : p \notin Pairs(old) \/ ConfigOf(old, p) # ConfigOf(new, p)}

\* the diff of this iteration has been taken and its baseline is still the one compared
AfterCheckConfigs == pc \in {"send_configs", "notify_new", "send_new"}
AfterCheckNew == pc \in {"notify_new", "send_new", "update_clients"}
EndOfIteration == pc \in {"sleep30", "sleep60"}

\* events the iteration has yet to dispatch
PendingConfigs ==
    {<<e.tg_id, e.config_data.email, e.config_data.config>> : e \in Range(cfg_todo)}
PendingNew ==
    IF pc = "send_new"
    THEN {<<Head(new_todo).id, a>> : a \in Range(admin_todo)}
         \cup {<<c.id, a>> : c \in Range(Tail(new_todo)), a \in Range(ADMIN_IDS)}
    ELSE {<<c.id, a>> : c \in Range(new_todo), a \in Range(ADMIN_IDS)}

\* C1: an event dispatched once is not dispatched again by a later iteration unless the
\* store changes again: no event that an iteration is about to dispatch is among the
\* events dispatched since the store last changed.
C1_DispatchedAtMostOnce ==
    /\ PendingConfigs \cap sent_cfg = {}
    /\ PendingNew \cap sent_new = {}

\* C2: when exactly one (ownerId, email) pair of the current snapshot differs from the
\* baseline, check_config_changes returns exactly one entry, that pair's current entry
\* under that owner.
C2_SinglePairChange ==
    (AfterCheckConfigs /\ Cardinality(DiffPairs(last_configs, cur_configs)) = 1)
    => /\ Len(Flatten(changed_configs)) = 1
       /\ Pairs(changed_configs) = DiffPairs(last_configs, cur_configs)
       /\ Flatten(changed_configs)[1] \in Range(Flatten(cur_configs))

\* one pair that the baseline has with another value differs, a second pair is unchanged
C2_Witness ==
    /\ AfterCheckConfigs
    /\ Cardinality(DiffPairs(last_configs, cur_configs)) = 1
    /\ DiffPairs(last_configs, cur_configs) \subseteq Pairs(last_configs)
    /\ Cardinality(Pairs(cur_configs)) >= 2
    /\ Len(Flatten(changed_configs)) = 1

\* C3: diff(X, X) = []: a current config snapshot equal to the baseline gives an empty
\* result, and an account list with the ids of the baseline gives no new account.
C3_DiffOfEqualIsEmpty ==
    /\ (AfterCheckConfigs /\ DictEq(cur_configs, last_configs)) => changed_configs = <<>>
    /\ (AfterCheckNew /\ Ids(cur_clients) = Ids(last_clients)) => new_clients = <<>>

C3_Witness ==
    /\ pc = "notify_new"
    /\ cur_configs # <<>>
    /\ DictEq(cur_configs, last_configs)
    /\ cur_clients # <<>>
    /\ Ids(cur_clients) = Ids(last_clients)
    /\ changed_configs = <<>>
    /\ new_clients = <<>>

\* C4: a key present only in the baseline is never reported, and an iteration that
\* finds nothing but removals has no event to dispatch.
OnlyRemovedConfigs ==
    /\ Pairs(cur_configs) # Pairs(last_configs)
    /\ Pairs(cur_configs) \subseteq Pairs(last_configs)
    /\ DiffPairs(last_configs, cur_configs) = {}
OnlyRemovedClients ==
    /\ Ids(cur_clients) # Ids(last_clients)
    /\ Ids(cur_clients) \subseteq Ids(last_clients)

C4_RemovalIsSilent ==
    /\ AfterCheckConfigs =>
          /\ Pairs(changed_configs) \subseteq Pairs(cur_configs)
          /\ OnlyRemovedConfigs => (changed_configs = <<>> /\ cfg_todo = <<>>)
    /\ AfterCheckNew =>
          /\ Ids(new_clients) \subseteq Ids(cur_clients)
          /\ OnlyRemovedClients => (new_clients = <<>> /\ new_todo = <<>> /\ tried_new = {})

\* an owned account of the baseline is gone from the store and from both snapshots
C4_Witness ==
    /\ pc = "notify_new"
    /\ OnlyRemovedConfigs
    /\ OnlyRemovedClients
    /\ Ids(cur_clients) = Ids(clients)
    /\ changed_configs = <<>>
    /\ new_clients = <<>>

\* C5: when the store is the baseline plus one account, the iteration that observes it
\* emits exactly one NewAccount event, for that account, tries every administrator, and
\* emits no ConfigChanged event for another owner than the new account's.
TrueConfigs == get_all_user_configs(TRUE, {})
GainedOne(a) ==
    /\ changes = iter_changes
    /\ a.id \notin Ids(iter_clients)
    /\ Ids(clients) = Ids(iter_clients) \cup {a.id}
    /\ Ids(cur_clients) = Ids(clients)
    /\ \A p \in Pairs(iter_configs) :
          p \in Pairs(TrueConfigs) /\ ConfigOf(TrueConfigs, p) = ConfigOf(iter_configs, p)

C5_NewAccountToEveryAdmin ==
    \A a \in Range(clients) :
        (EndOfIteration /\ GainedOne(a))
        => /\ new_clients = <<a>>
           /\ tried_new = {<<a.id, adm>> : adm \in Range(ADMIN_IDS)}
           /\ \A p \in Pairs(changed_configs) : p[1] = a.tgId

\* C6: after an iteration with a non-empty diff the retained baseline is the snapshot
\* that the iteration compared with the old baseline.
C6_BaselineIsComparedSnapshot ==
    pc = "sleep30"
    => /\ changed_configs # <<>> => DictEq(last_configs, cur_configs)
       /\ new_clients # <<>> => last_clients = cur_clients

\* C7: an iteration in which a store read failed leaves both baselines as they were and
\* sleeps the backoff interval of 60.
C7_ReadFailureBacksOff ==
    (EndOfIteration /\ read_failed)
    => /\ pc = "sleep60"
       /\ last_configs = iter_configs
       /\ last_clients = iter_clients

OwnedEntries(q) ==
    \A e \in Range(q) : e.tg_id # 0 /\ e.tg_id = e.config_data.client_data.tgId
C11_OnlyTheOwnerIsNotified ==
    /\ [](/\ OwnedEntries(Flatten(last_configs))
          /\ OwnedEntries(Flatten(cur_configs))
          /\ OwnedEntries(Flatten(changed_configs))
          /\ OwnedEntries(cfg_todo)
          /\ \A s \in sent_cfg : s[1] # 0)
    /\ [][(pc = "send_configs" /\ cfg_todo' # cfg_todo)
          => /\ cfg_todo' = Tail(cfg_todo)
             /\ sent_cfg' = sent_cfg \cup
                    {<<Head(cfg_todo).config_data.client_data.tgId,
                       Head(cfg_todo).config_data.email, Head(cfg_todo).config_data.config>>}
             /\ sent_new' = sent_new]_vars

\* a ConfigChanged event has been sent while the store and the snapshot read from it
\* hold an account without tgId
C11_Witness ==
    /\ pc = "send_configs"
    /\ sent_cfg # {}
    /\ \E c \in Range(clients) : c.tgId = 0
    /\ changes = iter_changes
    /\ cur_configs # <<>>

\* C12: in every fan-out a transport failure for one recipient does not prevent the
\* attempt to any other recipient of the same or of a later event of the batch: every
\* recipient of the target list gets exactly one attempt. In the monitor task a send
\* step, delivered or not, takes exactly the first pending recipient and leaves the
\* others and the later events pending, and the recipients tried for the event in hand
\* are exactly those no longer pending; a broadcast or a report that has started makes
\* one attempt per recipient, in the order of the list.
IsSuffix(q, of) == \E k \in 0..Len(of) : q = SubSeq(of, k + 1, Len(of))
Tos(q, op) == LET sel == SelectSeq(q, LAMBDA e : e.op = op) IN [i \in DOMAIN sel |-> sel[i].to]
HandlerStep(name) == conv_on /\ changes' = changes /\ handler' = name
C12_FanOutIsNotCutShort ==
    /\ [](pc = "send_new" =>
            /\ new_todo # <<>> /\ admin_todo # <<>>
            /\ IsSuffix(admin_todo, ADMIN_IDS)
            /\ \A a \in Range(ADMIN_IDS) :
                   (<<Head(new_todo).id, a>> \in tried_new) <=> a \notin Range(admin_todo))
    /\ [](pc = "send_configs" => IsSuffix(cfg_todo, Flatten(changed_configs)))
    /\ [][(pc = "send_new" /\ tried_new' # tried_new)
          => /\ tried_new' = tried_new \cup {<<Head(new_todo).id, Head(admin_todo)>>}
             /\ admin_todo' = Tail(admin_todo)
             /\ IF admin_todo' # <<>>
                THEN pc' = "send_new" /\ new_todo' = new_todo
                ELSE pc' = "notify_new" /\ new_todo' = Tail(new_todo)]_vars
    /\ [][(pc = "send_configs" /\ cfg_todo' # cfg_todo)
          => cfg_todo' = Tail(cfg_todo) /\ pc' = "send_configs"]_vars
    /\ [][(HandlerStep("mail_handle_confirm_button") /\ Tos(out', "broadcast") # <<>>)
          => Tos(out', "broadcast") = user_data.mail_telegram_ids[1]]_vars
    /\ [][(HandlerStep("report_comments") /\ Tos(out', "report") # <<>>)
          => Tos(out', "report") = ADMIN_IDS]_vars

\* a broadcast whose first delivery failed and whose second delivery succeeded
C12_Witness ==
    /\ handler = "mail_handle_confirm_button"
    /\ \E i, j \in DOMAIN out :
           /\ i < j
           /\ out[i].op = "broadcast" /\ ~out[i].ok
           /\ out[j].op = "broadcast" /\ out[j].ok

\* C13: a non-administrator who sends /mail never leaves Idle: the only transport call
\* is a rejection sent to the caller, no prompt is issued, and user_data is left as it
\* was; the broadcast conversation of a non-administrator is never active and holds no
\* session data.
MailData(ud) == [k \in AllMailKeys |-> ud[k]]
C13_NonAdminIsRejected ==
    /\ [](conv_on /\ user \notin Range(ADMIN_IDS)
          => mail_state = "END" /\ MailData(user_data) = [k \in AllMailKeys |-> None])
    /\ [][(HandlerStep("mail_start") /\ user \notin Range(ADMIN_IDS))
          => /\ mail_state' = "END"
             /\ report_state' = report_state
             /\ user_data' = user_data
             /\ Len(out') = 1
             /\ out'[1].op = "reject" /\ out'[1].to = user]_vars

\* a non-administrator has sent /mail while a report session of theirs is open
C13_Witness ==
    /\ handler = "mail_start"
    /\ user \notin Range(ADMIN_IDS)
    /\ user_data.report_data # None
    /\ out # <<>>

\* C14: a caller who owns no account of the store and sends /report is rejected: the
\* only transport call is a rejection sent to the caller, the report conversation stays
\* Idle, and user_data is left as it was (no report session data is created).
OwnsNone == \A c \in Range(clients) : c.tgId # user
C14_NonSubscriberIsRejected ==
    [][(HandlerStep("report_start") /\ OwnsNone)
       => /\ report_state' = "END"
          /\ mail_state' = mail_state
          /\ user_data' = user_data
          /\ Len(out') = 1
          /\ out'[1].op = "reject" /\ out'[1].to = user]_vars

\* the caller's only account has been deleted, and their /report has been rejected
C14_Witness ==
    /\ handler = "report_start"
    /\ OwnsNone
    /\ user = 1
    /\ faulty = 0
    /\ report_state = "END"
    /\ Len(out) = 1 /\ out[1].op = "reject"

\* C15: in MAIL_WAITING_MESSAGE a text of the administrator that is not empty after
\* trimming is stored with the current recipient set, a retraction of the first
\* prompt's cancel button is attempted, a confirm/cancel prompt is issued, and the
\* conversation moves to MAIL_CONFIRM.
CurrentRecipients == {c.tgId : c \in Range(clients)} \ {0}
Attempted(q, op, to) == \E i \in DOMAIN q : q[i].op = op /\ q[i].to = to
C15_TextMovesToConfirmation ==
    [][(HandlerStep("mail_receive_message") /\ Strip(update'[2]) # "")
       => /\ user_data'.mail_text = Some(update'[2])
          /\ user_data'.mail_telegram_ids # None
          /\ Range(user_data'.mail_telegram_ids[1]) = CurrentRecipients
          /\ \A id \in OptIds(user_data.mail_message_id) : Attempted(out', "retract", id)
          /\ Attempted(out', "confirm_prompt", user)
          /\ mail_state' = "MAIL_CONFIRM"]_vars

\* C16: on "mail_confirm" in MAIL_CONFIRM a delivery of the stored text is attempted to
\* every recipient of the session's list, the counts reported to the initiator satisfy
\* succeeded + failed = total recipients, the session data is cleared and the
\* conversation returns to Idle.
Pressed(callback_data) ==
    conv_on /\ changes' = changes /\ update'[1] = "callback" /\ update'[2] = callback_data
MailCleared(ud) == MailData(ud) = [k \in AllMailKeys |-> None]
C16_ConfirmBroadcastsAndClears ==
    [][(Pressed("mail_confirm") /\ mail_state = "MAIL_CONFIRM")
       => /\ user_data.mail_text # None /\ user_data.mail_telegram_ids # None
          /\ Tos(out', "broadcast") = user_data.mail_telegram_ids[1]
          /\ \A i \in DOMAIN out' : out'[i].op = "broadcast" => out'[i].body = user_data.mail_text
          /\ \E i \in DOMAIN out' :
                 /\ out'[i].op = "result" /\ out'[i].to = user
                 /\ out'[i].body[1] + out'[i].body[2] = out'[i].body[3]
                 /\ out'[i].body[3] = Len(user_data.mail_telegram_ids[1])
          /\ MailCleared(user_data')
          /\ mail_state' = "END"]_vars

\* C17: on "mail_cancel_confirm" in MAIL_CONFIRM the stored text and recipients are
\* discarded, a retraction is attempted for every tracked prompt (the first prompt and
\* the confirm prompt; replacing the prompt's text removes its buttons too), the session
\* is cleared, the conversation returns to Idle and nothing is broadcast.
Retracted(q, id) == Attempted(q, "retract", id) \/ Attempted(q, "cancelled", id)
TrackedMailIds(ud) == OptIds(ud.mail_message_id) \cup OptIds(ud.mail_confirm_message_id)
C17_CancelAtConfirmation ==
    [][(Pressed("mail_cancel_confirm") /\ mail_state = "MAIL_CONFIRM")
       => /\ \A id \in TrackedMailIds(user_data) : Retracted(out', id)
          /\ Tos(out', "broadcast") = <<>>
          /\ MailCleared(user_data')
          /\ mail_state' = "END"]_vars

\* C18: the cancel signal of the broadcast flow ("mail_cancel") is accepted in every
\* state but Idle: a retraction is attempted for every tracked prompt, whether or not
\* an earlier one failed, the session is cleared and the conversation ends Idle.
C18_CancelFromAnyState ==
    [][(Pressed("mail_cancel") /\ mail_state # "END")
       => /\ handler' = "mail_cancel_handler"
          /\ \A id \in TrackedMailIds(user_data) : Attempted(out', "retract", id)
          /\ MailCleared(user_data')
          /\ mail_state' = "END"]_vars

\* C19: in REPORT_PROVIDER and in REPORT_DEVICE a text that is not empty after trimming
\* is stored trimmed under the step's field, a retraction of the previous prompt's
\* cancel button is attempted, a new prompt is issued and its id is appended to the
\* tracked ids, and the conversation advances to the next step, skipping and repeating
\* none.
StepAdvances(name, field, next_state) ==
    (HandlerStep(name) /\ Strip(update'[2]) # "")
    => /\ user_data.report_data # None /\ user_data'.report_data # None
       /\ LET before == user_data.report_data[1]
              after == user_data'.report_data[1]
          IN /\ after[field] = Some(Strip(update'[2]))
             /\ \A id \in LastOf(before.message_ids) : Attempted(out', "retract", id)
             /\ Attempted(out', "prompt", user)
             /\ Len(after.message_ids) = Len(before.message_ids) + 1
             /\ SubSeq(after.message_ids, 1, Len(before.message_ids)) = before.message_ids
             /\ after.message_ids[Len(after.message_ids)] \notin Range(before.message_ids)
       /\ report_state' = next_state
C19_ReportStepsAdvanceInOrder ==
    /\ [][StepAdvances("report_provider", "provider", "REPORT_DEVICE")]_vars
    /\ [][StepAdvances("report_device", "device", "REPORT_COMMENTS")]_vars

\* C20: in REPORT_COMMENTS, with provider and device collected, a text that is not
\* empty after trimming completes the report: one message carrying the submitter, the
\* provider, the device and the comments is attempted to every administrator, the
\* submitter is acknowledged, the session is cleared and the conversation returns to
\* Idle.
C20_ReportIsSentToEveryAdmin ==
    [][(/\ HandlerStep("report_comments")
        /\ Strip(update'[2]) # ""
        /\ user_data.report_data # None
        /\ user_data.report_data[1].provider # None
        /\ user_data.report_data[1].device # None)
       => /\ Tos(out', "report") = ADMIN_IDS
          /\ \A i \in DOMAIN out' :
                 out'[i].op = "report"
                 => out'[i].body = <<user, user_data.report_data[1].provider,
                                     user_data.report_data[1].device, Some(Strip(update'[2]))>>
          /\ Attempted(out', "ack", user)
          /\ user_data'.report_data = None
          /\ report_state' = "END"]_vars

\* C21: the cancel signal of the report flow ("report_cancel") at REPORT_DEVICE, and at
\* every other step of the report conversation, attempts a retraction for every prompt
\* issued so far in the session, clears the session, returns the conversation to Idle
\* and sends no report to any administrator.
TrackedReportIds(ud) ==
    IF ud.report_data = None THEN {} ELSE Range(ud.report_data[1].message_ids)
C21_ReportCancelFromAnyStep ==
    [][(Pressed("report_cancel") /\ report_state # "END")
       => /\ handler' = "report_cancel_handler"
          /\ \A id \in TrackedReportIds(user_data) : Attempted(out', "retract", id)
          /\ Tos(out', "report") = <<>>
          /\ user_data'.report_data = None
          /\ report_state' = "END"]_vars

\* C22: once the report conversation is back in Idle, further text has no effect on it:
\* whether the text is dropped or taken by the broadcast conversation, no report is
\* sent to an administrator, the report session data is left as it is (none after a
\* completed report) and the report conversation stays Idle; a dropped text changes
\* nothing at all.
TextArrives == conv_on /\ changes' = changes /\ update'[1] = "text"
CommandArrives(cmd) == conv_on /\ changes' = changes /\ update' = <<"command", cmd>>
C23_ReentryStartsAfresh ==
    /\ [][(CommandArrives("/mail") /\ mail_state # "END" /\ user \in Range(ADMIN_IDS))
          => /\ handler' = "mail_start"
             /\ Attempted(out', "prompt", user)
             /\ user_data'.mail_text = None /\ user_data'.mail_telegram_ids = None
             /\ user_data'.mail_confirm_message_id = None
             /\ mail_state' = "MAIL_WAITING_MESSAGE"]_vars
    /\ [][(CommandArrives("/report") /\ report_state # "END" /\ ~OwnsNone)
          => /\ handler' = "report_start"
             /\ Attempted(out', "prompt", user)
             /\ user_data'.report_data # None
             /\ user_data'.report_data[1].provider = None
             /\ user_data'.report_data[1].device = None
             /\ user_data'.report_data[1].comments = None
             /\ report_state' = "REPORT_PROVIDER"]_vars


\* C24: a session never outlives its flow: in every reachable state in which the
\* broadcast flow is Idle none of its session data (stored text, recipient set, tracked
\* prompt ids) is retained, and in every reachable state in which the report flow is
\* Idle no report session (collected fields, tracked prompt ids) is retained.
C24_NoSessionDataWhenIdle ==
    conv_on => /\ mail_state = "END" => MailCleared(user_data)
               /\ report_state = "END" => user_data.report_data = None


\* C25: an empty or whitespace-only text arriving while a flow awaits text (broadcast
\* flow at AwaitingMessage; report flow at AwaitingProvider, AwaitingDevice or
\* AwaitingComments) is answered by the re-prompt alone: both flows keep their state,
\* the collected fields, the stored text and the tracked prompt ids are unchanged, and
\* no retraction is attempted.
AwaitsText ==
    \/ mail_state = "MAIL_WAITING_MESSAGE"
    \/ report_state \in {"REPORT_PROVIDER", "REPORT_DEVICE", "REPORT_COMMENTS"}
Blank(t) == t \in {"", " "}
C25_EmptyInputChangesNothing ==
    [][(TextArrives /\ Blank(update'[2]) /\ AwaitsText)
       => /\ UNCHANGED session
          /\ Tos(out', "retract") = <<>>
          /\ Len(out') = 1
          /\ out'[1].op = "reprompt" /\ out'[1].to = user
          /\ handler' = (CASE mail_state = "MAIL_WAITING_MESSAGE" -> "mail_receive_message"
                           [] report_state = "REPORT_PROVIDER" -> "report_provider"
                           [] report_state = "REPORT_DEVICE" -> "report_device"
                           [] OTHER -> "report_comments")]_vars

\* a whitespace-only text has been re-prompted at AwaitingDevice, with the provider
\* collected and two prompts tracked
C25_Witness ==
    /\ handler = "report_device"
    /\ update = <<"text", " ">>
    /\ ~handler_raised
    /\ out = <<[op |-> "reprompt", to |-> user, body |-> <<>>, ok |-> TRUE]>>
    /\ report_state = "REPORT_DEVICE"
    /\ user_data.report_data # None
    /\ user_data.report_data[1].provider = <<"a">>
    /\ Len(user_data.report_data[1].message_ids) = 2


\* C26: the updates of one user are processed one after the other: at no time are two
\* of them in flight together, an update in flight ends before the next one begins,
\* and the queued updates (duplicates included) wait meanwhile and are processed in
\* the order of their arrival against the session the previous one left.
C26_OneUpdateInFlight ==
    /\ [](polling => Len(in_flight) <= 1)
    /\ [][(polling /\ in_flight # <<>> /\ in_flight' # in_flight)
          => /\ in_flight' = <<>>
             /\ update' = in_flight[1]
             /\ UNCHANGED update_queue]_vars
    /\ [][(polling /\ in_flight' # <<>> /\ in_flight' # in_flight)
          => /\ in_flight' = <<Head(update_queue)>>
             /\ UNCHANGED <<session, update, handler, out>>]_vars

\* /mail is being processed while a duplicate /mail, fetched after it, waits on the queue
C26_Witness ==
    /\ polling
    /\ in_flight = <<(<<"command", "/mail">>)>>
    /\ update_queue = <<(<<"command", "/mail">>)>>


\* C27: the two flows of one user are independent. Whatever state the broadcast flow is
\* in, the cancel signal of the report flow and a text sent while the report flow
\* awaits one are handled by the report flow and leave the state and the data of the
\* broadcast flow alone; and whatever state the report flow is in, the cancel signal
\* of the broadcast flow is handled by the broadcast flow and leaves the report flow
\* alone.
ReportStepHandler ==
    CASE report_state = "REPORT_PROVIDER" -> "report_provider"
      [] report_state = "REPORT_DEVICE" -> "report_device"
      [] report_state = "REPORT_COMMENTS" -> "report_comments"
      [] OTHER -> "none"
MailUntouched == mail_state' = mail_state /\ MailData(user_data') = MailData(user_data)
ReportUntouched ==
    report_state' = report_state /\ user_data'.report_data = user_data.report_data
C27_FlowsAreIndependent ==
    /\ [][(Pressed("report_cancel") /\ report_state # "END")
          => handler' = "report_cancel_handler" /\ MailUntouched]_vars
    /\ [][(TextArrives /\ report_state # "END")
          => handler' = ReportStepHandler /\ MailUntouched]_vars
    /\ [][(Pressed("mail_cancel") /\ mail_state # "END")
          => /\ handler' \in {"mail_cancel_handler", "mail_handle_confirm_button"}
             /\ ReportUntouched]_vars


\* C28: rendering is deterministic: while the store is unchanged, two snapshots built
\* over it have the same (owner, email) entries and the same rendered config for each
\* of them. Checked on the snapshot check_config_changes builds (line 209) against the
\* retained baseline, both built over the store as it was at the start.
C28_SnapshotsOverSameStoreAgree ==
    (changes = 0 /\ AfterCheckConfigs)
    => /\ Pairs(cur_configs) = Pairs(last_configs)
       /\ \A p \in Pairs(cur_configs) : ConfigOf(cur_configs, p) = ConfigOf(last_configs, p)


\* C29: the baselines advance only on an observed change: from the top of an iteration
\* to the top of the next, the config baseline is the one the iteration started with
\* unless its config diff is non-empty, and the account baseline is the one it started
\* with unless its account diff is non-empty; so a non-empty diff of one kind replaces
\* the baseline of that kind alone.
InIteration ==
    pc \in {"check_configs", "send_configs", "notify_new", "send_new", "update_clients",
            "sleep30", "sleep60", "done"}
C29_BaselinesAdvanceOnChangeOnly ==
    InIteration => /\ changed_configs = <<>> => last_configs = iter_configs
                   /\ new_clients = <<>> => last_clients = iter_clients

\* an iteration with a non-empty config diff and an empty account diff has replaced the
\* config baseline and kept the account baseline
C29_Witness ==
    /\ pc = "sleep30"
    /\ changed_configs # <<>>
    /\ new_clients = <<>>
    /\ last_configs # iter_configs
    /\ last_clients = iter_clients
    /\ cur_clients # last_clients


\* C30: a failed delivery is not retried. While the store does not change again, an
\* event whose delivery failed is never again among the events the task is about to
\* send, in the same iteration or in a later one; and the iteration in which a
\* ConfigChanged delivery failed still gets to the baseline assignments of lines
\* 950-956 and ends with the sleep of line 959.
UndeliveredConfigs == {e[2] : e \in {u \in undelivered : u[1] = "config"}}
UndeliveredNew == {e[2] : e \in {u \in undelivered : u[1] = "new"}}
ChangedEvents ==
    {<<e.tg_id, e.config_data.email, e.config_data.config>> : e \in Range(Flatten(changed_configs))}
C30_FailedDeliveryIsNotRetried ==
    /\ PendingConfigs \cap UndeliveredConfigs = {}
    /\ PendingNew \cap UndeliveredNew = {}
    /\ (EndOfIteration /\ UndeliveredConfigs \cap ChangedEvents # {}) => pc = "sleep30"


\* C31: at most one monitor task is ever created, and the retained baselines are
\* written by that task alone: a step that changes last_configs or last_clients is a
\* step of the task at one of its four assignments (lines 892, 893, 951, 955), and no
\* step in which a handler runs or an update is dropped changes them.
C31_OneTaskOwnsTheBaselines ==
    /\ [](tasks <= 1)
    /\ [][baselines' # baselines
          => /\ tasks = 1
             /\ pc \in {"created", "init_clients", "notify_new", "update_clients"}
             /\ pc' # pc
             /\ UNCHANGED <<session, update, handler, out>>]_vars
    /\ [][conv_on => UNCHANGED baselines]_vars

\* the one task has replaced the config baseline at line 951
C31_Witness ==
    /\ tasks = 1
    /\ pc = "sleep30"
    /\ changed_configs # <<>>
    /\ last_configs # iter_configs


\* C32: a record whose metadata cannot be read or parsed while the snapshot is built is
\* skipped, and the other owned accounts appear with their rendered config: every entry
\* of a snapshot built over the store as it is carries the config rendered from the
\* store's metadata, never a stand-in for a failed render.
C32_FailedRecordIsSkipped ==
    (AfterCheckConfigs /\ changes = iter_changes)
    => \A e \in Range(Flatten(cur_configs)) :
           e.config_data.config =
               generate_vless_config(e.config_data.client_data, get_inbound_data(TRUE))


\* C33: every config change is eventually notified. While the loop runs and no store
\* read fails, an owned account whose rendered config in the store is not the one the
\* baseline holds leads to a ConfigChanged delivery attempt with that config to the
\* owner, unless the store moves on; and, what a finite run shows, the baseline never
\* takes in at line 951 an entry that the iteration has not dispatched.
Events(d) ==
    {<<e.tg_id, e.config_data.email, e.config_data.config>> : e \in Range(Flatten(d))}
StoreEvents == Events(get_all_user_configs(TRUE, {}))
Unnotified(ev) ==
    /\ pc \notin {"idle", "created", "done"}
    /\ ev \in StoreEvents
    /\ ev \notin Events(last_configs)
C33_EveryChangeIsNotified ==
    /\ \A tg \in TgIds \ {0}, em \in Emails, id \in 1..(MaxChanges + 1), sn \in ServerNames :
          LET ev == <<tg, em, <<"vless", id, Listen, Port, sn, Remark, em>>>>
          IN Unnotified(ev)
             ~> (ev \in sent_cfg \/ ev \notin StoreEvents \/ stopped \/ fails > 0)
    /\ [][(pc = "notify_new" /\ pc' = "update_clients" /\ fails' = 0)
          => Events(last_configs') \ Events(last_configs) \subseteq ChangedEvents]_vars


\* C34: no spurious notification. While the store is as it was when the process
\* started, no ConfigChanged event is pending or sent, failed store reads or not; and a
\* ConfigChanged event pending or sent since the store last changed carries the config
\* the store renders for that owner and email.
C34_NoSpuriousNotification ==
    /\ changes = 0 => (sent_cfg = {} /\ PendingConfigs = {})
    /\ (sent_cfg \cup PendingConfigs) \subseteq StoreEvents


FannedOut(q) == \E i \in DOMAIN q : q[i].op = "broadcast"
C36_FanOutAtMostOnce ==
    [][(/\ handler = "mail_handle_confirm_button"
        /\ FannedOut(out)
        /\ mail_state = "MAIL_CONFIRM"
        /\ HandlerStep("mail_handle_confirm_button"))
       => ~FannedOut(out')]_vars


\* C37: the recipients of a confirmed broadcast are exactly the subscriber set computed
\* when the text was submitted in MAIL_WAITING_MESSAGE. The set stored on entering
\* MAIL_CONFIRM is the subscriber set of that moment; while the conversation waits in
\* MAIL_CONFIRM it is only ever cleared, whatever happens to the store; the fan-out goes
\* to the stored list, and the total reported is the length of that list.
StoredRecipients(ud) == ud.mail_telegram_ids[1]
C37_RecipientsAreTheStoredSet ==
    /\ [][(HandlerStep("mail_receive_message") /\ mail_state' = "MAIL_CONFIRM")
          => /\ user_data'.mail_telegram_ids # None
             /\ Range(StoredRecipients(user_data')) = CurrentRecipients
             /\ Len(StoredRecipients(user_data')) = Cardinality(CurrentRecipients)]_vars
    /\ [][(mail_state = "MAIL_CONFIRM" /\ mail_state' = "MAIL_CONFIRM")
          => user_data'.mail_telegram_ids \in {user_data.mail_telegram_ids, None}]_vars
    /\ [][(Pressed("mail_confirm") /\ mail_state = "MAIL_CONFIRM" /\ FannedOut(out'))
          => /\ Tos(out', "broadcast") = StoredRecipients(user_data)
             /\ \A i \in DOMAIN out' :
                    out'[i].op = "result"
                    => out'[i].body[3] = Len(StoredRecipients(user_data))]_vars

\* a broadcast has been confirmed and reported, and the store's subscribers are no
\* longer the ones that got a delivery attempt
C37_Witness ==
    /\ handler = "mail_handle_confirm_button"
    /\ mail_state = "END"
    /\ Range(Tos(out, "broadcast")) # {}
    /\ Range(Tos(out, "broadcast")) # CurrentRecipients
    /\ \E i \in DOMAIN out : out[i].op = "result" /\ out[i].body[3] = Len(Tos(out, "broadcast"))


\* C38: config disclosure is confined. Through the button handler a user who is no
\* administrator only ever receives rendered configs of accounts of the store whose
\* tgId is that user's id, whatever email or client id the payload carries; the
\* by-client-id button returns a config only when the presser is an administrator.
Disclosed(q) ==
    UNION {Range(q[i].body) : i \in {j \in DOMAIN q : q[j].op \in {"configs", "admin_config"}}}
OwnRenders(user_id) ==
    UNION {{<<c.email, generate_vless_config(c, get_inbound_data(TRUE))>>, <<c.email, ErrConfig>>} :
              c \in {d \in Range(clients) : d.tgId = user_id}}
C38_DisclosureIsConfined ==
    /\ [][(HandlerStep("button_callback") /\ user \notin Admins)
          => Disclosed(out') \subseteq OwnRenders(user)]_vars
    /\ [][(HandlerStep("button_callback") /\ Attempted(out', "admin_config", user))
          => user \in Admins]_vars

\* a user who is no administrator pressed a config button that carries the email of
\* somebody else's account, and got the config of the own account
C38_Witness ==
    /\ handler = "button_callback"
    /\ user \notin Admins
    /\ update[2] \in ConfigData
    /\ \E c \in Range(clients) : c.email = EmailOf(update[2]) /\ c.tgId # user
    /\ \E i \in DOMAIN out :
           /\ out[i].op = "configs" /\ out[i].ok
           /\ out[i].body # <<>>
           /\ \A e \in Range(out[i].body) : e[2] # ErrConfig


\* C39: in every reachable state of the report flow the session matches the step: in
\* REPORT_PROVIDER one prompt id is tracked and no field is set; in REPORT_DEVICE two
\* are tracked and only provider is set; in REPORT_COMMENTS three are tracked and
\* provider and device are set and not empty; and the prompt tracked last is the only
\* one whose cancel button has not been retracted: a step that tracks a new prompt has
\* retracted the button of the one before it.
ReportSessionIs(n, provider_set, device_set) ==
    /\ user_data.report_data # None
    /\ LET report_data == user_data.report_data[1]
       IN /\ Len(report_data.message_ids) = n
          /\ Cardinality(Range(report_data.message_ids)) = n
          /\ (report_data.provider # None) = provider_set
          /\ (report_data.device # None) = device_set
          /\ report_data.comments = None
          /\ report_data.provider \notin {Some(""), Some(" ")}
          /\ report_data.device \notin {Some(""), Some(" ")}
SessionMatchesStep ==
    /\ report_state = "REPORT_PROVIDER" => ReportSessionIs(1, FALSE, FALSE)
    /\ report_state = "REPORT_DEVICE" => ReportSessionIs(2, TRUE, FALSE)
    /\ report_state = "REPORT_COMMENTS" => ReportSessionIs(3, TRUE, TRUE)
OnlyLastPromptHasCancel ==
    (conv_on /\ changes' = changes /\ report_state' \in {"REPORT_DEVICE", "REPORT_COMMENTS"}
     /\ report_state' # report_state)
    => \A id \in LastOf(ReportIds) :
           \E i \in DOMAIN out' : out'[i].op = "retract" /\ out'[i].to = id /\ out'[i].ok
C39_SessionMatchesStep ==
    /\ []SessionMatchesStep
    /\ [][OnlyLastPromptHasCancel]_vars

============================================================================
